---------------------------- MODULE Spec2Model ----------------------------
(***************************************************************************)
(* Model of spawn-bitmath (src/lib.rs): most_significant_bit and           *)
(* least_significant_bit over a u128.                                      *)
(*                                                                         *)
(* A u128 is represented exactly by the set of its set bit positions, a    *)
(* subset of 0..127 (TLC's integers are 32 bits wide, so the number itself *)
(* cannot be held).  Comparison, masking and shifting are defined on that  *)
(* representation for arbitrary operands, and the literals of the source   *)
(* are written as the bit sets they denote.  The accumulator r is a u8 and *)
(* is kept as a number modulo 2^8 together with a flag that records        *)
(* whether an addition or subtraction left the range 0..255 (a panic in a  *)
(* build with overflow checks, a wrap in a build without).                 *)
(***************************************************************************)
EXTENDS Integers, Sequences, FiniteSets

VARIABLES call, prev

vars == <<call, prev>>

(***************************************************************************)
(* u128 arithmetic on bit sets.                                            *)
(***************************************************************************)

\* Number of bits of the value field of U128Wrapper.
Width == 128

BitPos == 0 .. (Width - 1)

\* Number of values of the accumulator's type u8.
U8Mod == 256

\* Largest element of a nonempty set of bit positions.
MaxOf(S) == CHOOSE i \in S : \A j \in S : j <= i

\* Smallest element of a nonempty set of bit positions.
MinOf(S) == CHOOSE i \in S : \A j \in S : i <= j

\* The value 2^k.
Pow2(k) == {k}

\* The value 2^n - 1 (n low bits set).
LowMask(n) == 0 .. (n - 1)

\* a >= b on unsigned values: equal, or a has a bit that b lacks above
\* every bit that b has and a lacks.
Ge(a, b) == \/ a = b
            \/ \E i \in a \ b : \A j \in b \ a : j < i

\* a <= b on unsigned values.
Le(a, b) == Ge(b, a)

\* a & b.
BitAnd(a, b) == a \cap b

\* x >> n on a u128.
Shr(x, n) == {i - n : i \in {j \in x : j >= n}}

\* x << n, as a mathematical number (may leave the u128 range).
Shl(x, n) == {i + n : i \in x}

\* The bit set of a small natural number m.
FromNat(m) == {i \in 0 .. 30 : (m \div (2 ^ i)) % 2 = 1}

\* r + n in u8, with the overflow it caused.
AddU8(r, n) == [val |-> (r + n) % U8Mod, ovf |-> r + n >= U8Mod]

\* r - n in u8, with the underflow it caused.
SubU8(r, n) == [val |-> (r - n) % U8Mod, ovf |-> r - n < 0]

(***************************************************************************)
(* most_significant_bit                                                    *)
(***************************************************************************)

\* MsbLadder with the 32-bit step adding 16, the next step's amount.
MsbLadderWrongAdd ==
    << [threshold |-> Pow2(64), shift |-> 64, add |-> 64],
       [threshold |-> Pow2(32), shift |-> 32, add |-> 16],
       [threshold |-> Pow2(16), shift |-> 16, add |-> 16],
       [threshold |-> Pow2(8),  shift |-> 8,  add |-> 8],
       [threshold |-> Pow2(4),  shift |-> 4,  add |-> 4],
       [threshold |-> Pow2(2),  shift |-> 2,  add |-> 2],
       [threshold |-> Pow2(1),  shift |-> 0,  add |-> 1] >>

\* The seven `if x >= T { x >>= s; r += a; }` steps, in source order.
\* The last step has no shift.
MsbLadder ==
    << [threshold |-> Pow2(64), shift |-> 64, add |-> 64],
       [threshold |-> Pow2(32), shift |-> 32, add |-> 32],
       [threshold |-> Pow2(16), shift |-> 16, add |-> 16],
       [threshold |-> Pow2(8),  shift |-> 8,  add |-> 8],
       [threshold |-> Pow2(4),  shift |-> 4,  add |-> 4],
       [threshold |-> Pow2(2),  shift |-> 2,  add |-> 2],
       [threshold |-> Pow2(1),  shift |-> 0,  add |-> 1] >>

\* MsbStep with `x > T` in place of `x >= T`.
MsbStepStrict(s, step) ==
    IF Ge(s.x, step.threshold) /\ s.x # step.threshold
    THEN [x     |-> Shr(s.x, step.shift),
          r     |-> AddU8(s.r, step.add).val,
          taken |-> TRUE,
          ovf   |-> s.ovf \/ AddU8(s.r, step.add).ovf]
    ELSE [x |-> s.x, r |-> s.r, taken |-> FALSE, ovf |-> s.ovf]

\* One step of the ladder of most_significant_bit applied to (x, r).
MsbStep(s, step) ==
    IF Ge(s.x, step.threshold)
    THEN [x     |-> Shr(s.x, step.shift),
          r     |-> AddU8(s.r, step.add).val,
          taken |-> TRUE,
          ovf   |-> s.ovf \/ AddU8(s.r, step.add).ovf]
    ELSE [x |-> s.x, r |-> s.r, taken |-> FALSE, ovf |-> s.ovf]

\* `let mut x = value; let mut r: u8 = 0;`
MsbStart(value) == [x |-> value, r |-> 0, taken |-> FALSE, ovf |-> FALSE]

RECURSIVE MsbTrace(_, _)
\* The (x, r) pairs after each of the first n steps of most_significant_bit.
MsbTrace(value, n) ==
    IF n = 0
    THEN << >>
    ELSE LET before == MsbTrace(value, n - 1)
             s      == IF n = 1 THEN MsbStart(value) ELSE before[n - 1]
         IN  Append(before, MsbStep(s, MsbLadder[n]))

\* The JsValue handed back: Ok(r), or the panic of a build with overflow
\* checks when the accumulator left the u8 range.
Finish(trace, checks) ==
    IF checks /\ trace[Len(trace)].ovf
    THEN [trace |-> trace, result |-> [ok |-> FALSE, msg |-> "panic: arithmetic overflow"]]
    ELSE [trace |-> trace, result |-> [ok |-> TRUE, index |-> trace[Len(trace)].r]]

\* from_value failed: `Invalid input: ...`.
DecodeFailure ==
    [trace |-> << >>, result |-> [ok |-> FALSE, msg |-> "Invalid input"]]

\* `if value == 0 { return Err(...) }`.
ZeroFailure ==
    [trace |-> << >>, result |-> [ok |-> FALSE, msg |-> "Input must be greater than 0"]]

\* MostSignificantBit without the `value == 0` test.
MostSignificantBitNoZeroCheck(input, checks) ==
    IF input.kind # "u128"
    THEN DecodeFailure
    ELSE Finish(MsbTrace(input.value, Len(MsbLadder)), checks)

\* most_significant_bit(input); checks = the build checks arithmetic overflow.
MostSignificantBit(input, checks) ==
    IF input.kind # "u128"
    THEN DecodeFailure
    ELSE IF input.value = {}
         THEN ZeroFailure
         ELSE Finish(MsbTrace(input.value, Len(MsbLadder)), checks)

(***************************************************************************)
(* least_significant_bit                                                   *)
(***************************************************************************)

\* LsbLadder with a 64-bit mask in the first step.
LsbLadderLow64Mask ==
    << [mask |-> LowMask(64),  sub |-> 64, shift |-> 64],
       [mask |-> LowMask(32),  sub |-> 32, shift |-> 32],
       [mask |-> LowMask(16),  sub |-> 16, shift |-> 16],
       [mask |-> LowMask(8),   sub |-> 8,  shift |-> 8],
       [mask |-> LowMask(4),   sub |-> 4,  shift |-> 4],
       [mask |-> LowMask(2),   sub |-> 2,  shift |-> 2],
       [mask |-> LowMask(1),   sub |-> 1,  shift |-> 0] >>

\* The seven `if x & M > 0 { r -= a; } else { x >>= s; }` steps, in source
\* order.  The first mask has 32 hex digits F, that is all 128 bits; the
\* last step has no else branch.
LsbLadder ==
    << [mask |-> LowMask(128), sub |-> 64, shift |-> 64],
       [mask |-> LowMask(32),  sub |-> 32, shift |-> 32],
       [mask |-> LowMask(16),  sub |-> 16, shift |-> 16],
       [mask |-> LowMask(8),   sub |-> 8,  shift |-> 8],
       [mask |-> LowMask(4),   sub |-> 4,  shift |-> 4],
       [mask |-> LowMask(2),   sub |-> 2,  shift |-> 2],
       [mask |-> LowMask(1),   sub |-> 1,  shift |-> 0] >>

\* One step of the ladder of least_significant_bit applied to (x, r).
LsbStep(s, step) ==
    IF BitAnd(s.x, step.mask) # {}
    THEN [x     |-> s.x,
          r     |-> SubU8(s.r, step.sub).val,
          taken |-> TRUE,
          ovf   |-> s.ovf \/ SubU8(s.r, step.sub).ovf]
    ELSE [x |-> Shr(s.x, step.shift), r |-> s.r, taken |-> FALSE, ovf |-> s.ovf]

\* LsbStart with r starting at 63.
LsbStartAt63(value) == [x |-> value, r |-> 63, taken |-> FALSE, ovf |-> FALSE]

\* `let mut x = value; let mut r: u8 = 127;`
LsbStart(value) == [x |-> value, r |-> 127, taken |-> FALSE, ovf |-> FALSE]

RECURSIVE LsbTrace(_, _)
\* The (x, r) pairs after each of the first n steps of least_significant_bit.
LsbTrace(value, n) ==
    IF n = 0
    THEN << >>
    ELSE LET before == LsbTrace(value, n - 1)
             s      == IF n = 1 THEN LsbStart(value) ELSE before[n - 1]
         IN  Append(before, LsbStep(s, LsbLadder[n]))

\* least_significant_bit(input); checks = the build checks arithmetic overflow.
LeastSignificantBit(input, checks) ==
    IF input.kind # "u128"
    THEN DecodeFailure
    ELSE IF input.value = {}
         THEN ZeroFailure
         ELSE Finish(LsbTrace(input.value, Len(LsbLadder)), checks)

(***************************************************************************)
(* Inputs                                                                  *)
(***************************************************************************)

\* Largest m of the inputs m * 2^s of a single call.
MaxMantissa == 12

\* Largest m of the inputs m * 2^s of two successive calls.
MaxPairMantissa == 4

\* m * 2^s for m in 1..maxM and every s that keeps the product a u128.
Scaled(maxM) ==
    {v \in {Shl(FromNat(m), s) : m \in 1 .. maxM, s \in BitPos} : v \subseteq BitPos}

\* Every value with exactly one or exactly two set bits.
OneOrTwoBits == {{h, l} : h, l \in BitPos}

\* 2^n - 1 for every n in 1..128: all bits below some position set.
Ones == {LowMask(n) : n \in 1 .. Width}

\* 2^70 + 1.
MixedBits == {0, 70}

Zero == {}

Values == {Zero, MixedBits} \cup Ones \cup OneOrTwoBits \cup Scaled(MaxMantissa)

PairValues == {Zero, MixedBits} \cup Ones \cup Scaled(MaxPairMantissa)

\* What the host passes: a payload that decodes to a u128, or one that does not.
Payload(values) ==
    {[kind |-> "u128", value |-> v] : v \in values}
        \cup {[kind |-> "malformed", value |-> Zero]}

Payloads == Payload(Values)

PairPayloads == Payload(PairValues)

(***************************************************************************)
(* The host calling the two exported functions                             *)
(***************************************************************************)

NoCall == [op |-> "none"]

\* The record of one call: what was passed, the ladder's steps, what came back.
Called(op, input, out) ==
    [op |-> op, input |-> input, trace |-> out.trace, result |-> out.result]

Init == call = NoCall /\ prev = NoCall

\* One call of most_significant_bit.
CallMostSignificantBit ==
    /\ call = NoCall
    /\ \E input \in Payloads, checks \in BOOLEAN :
          call' = Called("msb", input, MostSignificantBit(input, checks))
    /\ UNCHANGED prev

\* One call of least_significant_bit.
CallLeastSignificantBit ==
    /\ call = NoCall
    /\ \E input \in Payloads, checks \in BOOLEAN :
          call' = Called("lsb", input, LeastSignificantBit(input, checks))
    /\ UNCHANGED prev

Next == CallMostSignificantBit \/ CallLeastSignificantBit

Spec == Init /\ [][Next]_vars

\* A call of most_significant_bit, the first or the second of two.
PairMostSignificantBit ==
    /\ prev = NoCall
    /\ \E input \in PairPayloads, checks \in BOOLEAN :
          call' = Called("msb", input, MostSignificantBit(input, checks))
    /\ prev' = call

\* A call of least_significant_bit, the first or the second of two.
PairLeastSignificantBit ==
    /\ prev = NoCall
    /\ \E input \in PairPayloads, checks \in BOOLEAN :
          call' = Called("lsb", input, LeastSignificantBit(input, checks))
    /\ prev' = call

NextPair == PairMostSignificantBit \/ PairLeastSignificantBit

SpecPair == Init /\ [][NextPair]_vars

(***************************************************************************)
(* Properties                                                              *)
(***************************************************************************)

\* c is a finished call of op whose input decoded to a nonzero value.
NonZeroCall(c, op) ==
    /\ c.op = op
    /\ c.input.kind = "u128"
    /\ c.input.value # Zero

\* c handed back the index i.
Returned(c, i) == c.result.ok /\ c.result.index = i

\* C1: for a decoded nonzero value, the index either operation returns is
\* in 0..127 and is the position of a set bit of the value.
C1_IndexIsSetBit ==
    \A op \in {"msb", "lsb"} :
        (NonZeroCall(call, op) /\ call.result.ok)
            => /\ call.result.index \in BitPos
               /\ call.result.index \in call.input.value

\* C2: for a nonzero value, least_significant_bit returns the index of its
\* lowest set bit.
C2_LsbIsLowestSetBit ==
    NonZeroCall(call, "lsb") => Returned(call, MinOf(call.input.value))

\* C3: for a nonzero value, most_significant_bit returns the index of its
\* highest set bit.
C3_MsbIsHighestSetBit ==
    NonZeroCall(call, "msb") => Returned(call, MaxOf(call.input.value))

\* most_significant_bit returned 127 for 2^127 + 2^3.
C3_Witness ==
    /\ NonZeroCall(call, "msb")
    /\ call.input.value = {3, 127}
    /\ Returned(call, 127)

\* C4: for every k in 0..127, both operations return k for the value 2^k.
C4_SingleBit ==
    \A k \in BitPos :
        (call.op \in {"msb", "lsb"} /\ call.input.kind = "u128"
             /\ call.input.value = Pow2(k))
            => Returned(call, k)

\* C5: for the value 0 both operations return the error "Input must be
\* greater than 0", never an index, and no step of the ladder has run.
C5_ZeroIsError ==
    (call.op \in {"msb", "lsb"} /\ call.input.kind = "u128"
         /\ call.input.value = Zero)
        => /\ ~call.result.ok
           /\ call.result.msg = "Input must be greater than 0"
           /\ call.trace = << >>

\* most_significant_bit was called with 0 and returned an error.
C5_Witness ==
    /\ call.op = "msb"
    /\ call.input.kind = "u128"
    /\ call.input.value = Zero
    /\ ~call.result.ok

\* C6: for 2^70 + 1, most_significant_bit returns 70 and
\* least_significant_bit returns 0.
C6_MixedBits ==
    /\ (NonZeroCall(call, "msb") /\ call.input.value = MixedBits)
           => Returned(call, 70)
    /\ (NonZeroCall(call, "lsb") /\ call.input.value = MixedBits)
           => Returned(call, 0)

\* most_significant_bit was called with 2^70 + 1 and returned 70.
C6_Witness ==
    /\ NonZeroCall(call, "msb")
    /\ call.input.value = MixedBits
    /\ Returned(call, 70)

\* C7: for nonzero a <= b, most_significant_bit(a) <= most_significant_bit(b).
C7_MsbMonotonic ==
    (NonZeroCall(prev, "msb") /\ NonZeroCall(call, "msb")
         /\ Le(prev.input.value, call.input.value))
        => /\ prev.result.ok
           /\ call.result.ok
           /\ prev.result.index <= call.result.index

\* most_significant_bit was called with 2^31 and then with 2^32.
C7_Witness ==
    /\ NonZeroCall(prev, "msb")
    /\ NonZeroCall(call, "msb")
    /\ prev.input.value = Pow2(31)
    /\ call.input.value = Pow2(32)
    /\ Returned(prev, 31)
    /\ Returned(call, 32)

\* C8: in least_significant_bit the first step's test holds for every
\* nonzero input: the step subtracts 64 from r (r = 63) and leaves x as it
\* is; its else branch is never taken.
C8_FirstStepAlwaysSubtracts ==
    NonZeroCall(call, "lsb")
        => /\ Len(call.trace) = Len(LsbLadder)
           /\ call.trace[1].taken
           /\ call.trace[1].r = 63
           /\ call.trace[1].x = call.input.value

\* least_significant_bit was called with 2^64, whose low 64 bits are zero,
\* and its first step subtracted.
C8_Witness ==
    /\ NonZeroCall(call, "lsb")
    /\ call.input.value = Pow2(64)
    /\ call.trace[1].taken

\* C9: for a nonzero input the accumulator r neither overflows nor
\* underflows at any step of either ladder and stays in 0..127.
C9_AccumulatorInRange ==
    \A op \in {"msb", "lsb"} :
        NonZeroCall(call, op)
            => /\ Len(call.trace) = 7
               /\ \A i \in 1 .. Len(call.trace) :
                     /\ ~call.trace[i].ovf
                     /\ call.trace[i].r \in 0 .. 127

\* least_significant_bit subtracted at all seven steps and ended at r = 0.
C9_Witness ==
    /\ NonZeroCall(call, "lsb")
    /\ \A i \in 1 .. 7 : call.trace[i].taken
    /\ call.trace[7].r = 0

\* The least_significant_bit call and the most_significant_bit call among
\* the two calls made, when both were given the same nonzero value.
SameValueCalls(l, m) ==
    /\ NonZeroCall(l, "lsb")
    /\ NonZeroCall(m, "msb")
    /\ l.input.value = m.input.value

\* C10: for a nonzero value, the index least_significant_bit returns is at
\* most the index most_significant_bit returns.
C10_LsbAtMostMsb ==
    /\ SameValueCalls(prev, call)
           => /\ prev.result.ok
              /\ call.result.ok
              /\ prev.result.index <= call.result.index
    /\ SameValueCalls(call, prev)
           => /\ prev.result.ok
              /\ call.result.ok
              /\ call.result.index <= prev.result.index

\* Both operations were called with 3 * 2^64: 63 from least_significant_bit,
\* 65 from most_significant_bit.
C10_Witness ==
    /\ SameValueCalls(prev, call)
    /\ call.input.value = {64, 65}
    /\ Returned(prev, 63)
    /\ Returned(call, 65)

==========================================================================
